---- MODULE Spec2Model ----
(***************************************************************************)
(* A model of the Result<S, F> class of src/Result.ts.                     *)
(*                                                                         *)
(* The heap holds every Result instance that was constructed; an operation *)
(* is one call of a factory or of a method on a receiver in the heap.      *)
(* Caller-supplied functions (mapper, predicate, next, handler, supplier,  *)
(* failureProvider) are chosen nondeterministically: each either returns a *)
(* value of the payload domain or throws an Error with a message.          *)
(***************************************************************************)
EXTENDS Integers, Sequences, FiniteSets, TLC

VARIABLES heap, last, promises, lifts, each

vars == <<heap, last, promises, lifts, each>>

\* most Result instances the model constructs
MaxObjs == 2

\* longest array passed to a function over arrays
MaxLen == 3

\* longest array passed to forEachPromise
MaxElems == 2

\* most Promises the caller creates
MaxPromises == 1

\* most calls of liftPromise suspended at their await
MaxLifts == 1

(***************************************************************************)
(* JavaScript values.  A value is a record of its type (kind), its string  *)
(* form (text, the pieces of the string toString() builds) and, for an     *)
(* object, its identity (id; 0 for primitives).                            *)
(***************************************************************************)
Prim(kind, str) == [kind |-> kind, text |-> <<str>>, id |-> 0]

Undefined == Prim("undefined", "undefined")
Zero == Prim("number", "0")
EmptyString == Prim("string", "")
StrA == Prim("string", "a")
True == Prim("boolean", "true")
False == Prim("boolean", "false")

NaN == Prim("number", "NaN")

\* a boolean as a JavaScript value
Bool(b) == IF b THEN True ELSE False

\* an object literal: two literals are two objects, whatever they hold
ObjectValue(id) == [kind |-> "object", text |-> <<"[object Object]">>, id |-> id]

\* a === b: primitives by value, objects by identity, NaN equal to nothing
StrictEquals(a, b) == a = b /\ a # NaN

\* the payloads a caller passes and the values a caller's function returns
Payload == {Undefined, Zero, EmptyString, StrA}

\* the messages of the Errors a caller's function throws
Messages == {"boom"}

\* a Promise the caller created: the entry id of promises
PromiseValue(id) == [kind |-> "promise", text |-> <<"[object Promise]">>, id |-> id]

\* an object literal without a flatMap member
PlainObject == [kind |-> "object", text |-> <<"[object Object]">>, id |-> 0]

\* an object whose toString() yields the concatenation of the parts
ToStringObject(parts, id) == [kind |-> "object", text |-> parts, id |-> id]

\* the string form of an array: the string forms of its elements, joined
\* with commas; undefined and null elements have the empty string form
RECURSIVE JoinText(_)
JoinText(elems) ==
    IF elems = <<>> THEN <<>>
    ELSE LET first == IF Head(elems).kind \in {"undefined", "null"}
                      THEN <<"">> ELSE Head(elems).text
         IN  IF Len(elems) = 1 THEN first
             ELSE first \o <<",">> \o JoinText(Tail(elems))

\* a new array of the values elems
ArrayValue(elems) ==
    [kind |-> "array", text |-> JoinText(elems), id |-> 0, elems |-> elems]

\* a template string
StringValue(parts) == [kind |-> "string", text |-> parts, id |-> 0]

\* JavaScript truthiness, as used by the || operator
Falsy(v) ==
    \/ v.kind \in {"undefined", "null"}
    \/ v.kind = "number" /\ v.text \in {<<"0">>, <<"NaN">>}
    \/ v.kind = "string" /\ v.text = <<"">>
    \/ v.kind = "boolean" /\ v.text = <<"false">>

\* a || b
Or(a, b) == IF Falsy(a) THEN b ELSE a

(***************************************************************************)
(* The Result class.                                                       *)
(***************************************************************************)
\* private constructor(result: ResultType<S, F>); an omitted field of the
\* argument is undefined
NewResult(success, failure) ==
    [value     |-> success,
     error     |-> failure,
     succeeded |-> success # Undefined /\ failure = Undefined,
     failed    |-> failure # Undefined]

\* static success(success) / successResult
successResult(success) == NewResult(success, Undefined)

\* static failure(failure) / failureResult
failureResult(failure) == NewResult(Undefined, failure)

\* the receiver of a call that has none
NoReceiver == NewResult(Undefined, Undefined)

\* private static errorMessageResult(message, error)
errorMessageResult(message, error, fresh) ==
    NewResult(Undefined,
              ToStringObject(<<message, "; error: ", error.message>>, fresh))

(***************************************************************************)
(* Caller-supplied functions.                                              *)
(***************************************************************************)
\* a function that returns ret, or throws Error(message)
Fn(throws, ret, message) ==
    [supplied |-> TRUE, throws |-> throws, ret |-> ret, message |-> message,
     res |-> NewResult(Undefined, Undefined)]

\* an omitted optional function argument
NoFn ==
    [supplied |-> FALSE, throws |-> FALSE, ret |-> Undefined, message |-> "",
     res |-> NewResult(Undefined, Undefined)]

\* the functions S -> value, F -> value, () -> value over the values vals
Mappers(vals) ==
    {Fn(FALSE, v, "") : v \in vals} \cup {Fn(TRUE, Undefined, m) : m \in Messages}

\* the functions S -> boolean
Predicates ==
    {Fn(FALSE, b, "") : b \in {True, False}} \cup {Fn(TRUE, Undefined, m) : m \in Messages}

\* the functions with no result
Handlers ==
    {Fn(FALSE, Undefined, "")} \cup {Fn(TRUE, Undefined, m) : m \in Messages}

\* a Result instance as a JavaScript value: the object at index id of the heap
ResultValue(id) == [kind |-> "Result", text |-> <<"[object Object]">>, id |-> id]

\* a function S -> Result that returns the instance id, whose fields are res
\* (an instance of the heap, or one the function constructs when it runs)
NextFn(res, id) ==
    [supplied |-> TRUE, throws |-> FALSE, ret |-> ResultValue(id), message |-> "",
     res |-> res]

\* one invocation of a caller-supplied function, with what it did
Call(name, arg, fn) ==
    [fn |-> name, arg |-> arg, throws |-> fn.throws, ret |-> fn.ret,
     message |-> fn.message, res |-> fn.res]

(***************************************************************************)
(* How a call ends.  kind is "new" (returns a Result it constructed),      *)
(* "this" (returns the receiver), "ref" (returns the instance ref that it  *)
(* was handed), "value" (returns a bare value), "raise" (throws) or        *)
(* "await" (suspends on the Promise val).  thisAfter is what the           *)
(* receiver's fields hold when the call ends.                              *)
(***************************************************************************)
Returned(this, res, calls) ==
    [kind |-> "new", res |-> res, ref |-> 0, val |-> Undefined,
     thrown |-> <<>>, calls |-> calls, thisAfter |-> this]

ReturnedThis(this, calls) ==
    [kind |-> "this", res |-> this, ref |-> 0, val |-> Undefined,
     thrown |-> <<>>, calls |-> calls, thisAfter |-> this]

ReturnedRef(this, result, calls) ==
    [kind |-> "ref", res |-> this, ref |-> result.id, val |-> Undefined,
     thrown |-> <<>>, calls |-> calls, thisAfter |-> this]

Awaiting(this, promise) ==
    [kind |-> "await", res |-> this, ref |-> 0, val |-> promise,
     thrown |-> <<>>, calls |-> <<>>, thisAfter |-> this]

ReturnedValue(this, val, calls) ==
    [kind |-> "value", res |-> this, ref |-> 0, val |-> val,
     thrown |-> <<>>, calls |-> calls, thisAfter |-> this]

Raised(this, message, calls) ==
    [kind |-> "raise", res |-> this, ref |-> 0, val |-> Undefined,
     thrown |-> message, calls |-> calls, thisAfter |-> this]

\* equals(result) whose failure branch would compare the error with the value
equalsCrossed(this, result) ==
    IF result.succeeded # this.succeeded
    THEN ReturnedValue(this, False, <<>>)
    ELSE IF this.succeeded
    THEN ReturnedValue(this, Bool(StrictEquals(result.value, this.value)), <<>>)
    ELSE ReturnedValue(this, Bool(StrictEquals(result.error, this.value)), <<>>)

\* equals(result)
equals(this, result) ==
    IF result.succeeded # this.succeeded
    THEN ReturnedValue(this, False, <<>>)
    ELSE IF this.succeeded
    THEN ReturnedValue(this, Bool(StrictEquals(result.value, this.value)), <<>>)
    ELSE ReturnedValue(this, Bool(StrictEquals(result.error, this.error)), <<>>)

\* nonEqual(result)
nonEqual(this, result) ==
    ReturnedValue(this, Bool(equals(this, result).val = False), <<>>)

\* map<SP>(mapper)
map(this, mapper) ==
    IF this.succeeded /\ this.value # Undefined
    THEN IF mapper.throws
         THEN Raised(this, <<mapper.message>>, <<Call("mapper", this.value, mapper)>>)
         ELSE Returned(this, NewResult(mapper.ret, Undefined),
                       <<Call("mapper", this.value, mapper)>>)
    ELSE Returned(this, NewResult(Undefined, this.error), <<>>)

\* flatMap that wraps the value of the Result next returned in a new success
flatMapRewrapping(this, next) ==
    IF this.succeeded /\ this.value # Undefined
    THEN IF next.throws
         THEN Raised(this, <<next.message>>, <<Call("next", this.value, next)>>)
         ELSE Returned(this, NewResult(next.res.value, Undefined),
                       <<Call("next", this.value, next)>>)
    ELSE Returned(this, NewResult(Undefined, this.error), <<>>)

\* flatMap<SP>(next)
flatMap(this, next) ==
    IF this.succeeded /\ this.value # Undefined
    THEN IF next.throws
         THEN Raised(this, <<next.message>>, <<Call("next", this.value, next)>>)
         ELSE ReturnedRef(this, next.ret, <<Call("next", this.value, next)>>)
    ELSE Returned(this, NewResult(Undefined, this.error), <<>>)

\* andThen<SP>(next), deprecated
andThen(this, next) == flatMap(this, next)

\* conditionalMap(predicate, mapper)
conditionalMap(this, predicate, mapper) ==
    IF this.succeeded /\ this.value # Undefined
    THEN IF predicate.throws
         THEN Raised(this, <<predicate.message>>, <<Call("predicate", this.value, predicate)>>)
         ELSE IF ~Falsy(predicate.ret)
         THEN IF mapper.throws
              THEN Raised(this, <<mapper.message>>,
                          <<Call("predicate", this.value, predicate), Call("mapper", this.value, mapper)>>)
              ELSE Returned(this, NewResult(mapper.ret, Undefined),
                            <<Call("predicate", this.value, predicate), Call("mapper", this.value, mapper)>>)
         ELSE Returned(this, NewResult(this.value, Undefined),
                       <<Call("predicate", this.value, predicate)>>)
    ELSE Returned(this, NewResult(Undefined, this.error), <<>>)

\* conditionalFlatMap(predicate, next)
conditionalFlatMap(this, predicate, next) ==
    IF this.succeeded /\ this.value # Undefined
    THEN IF predicate.throws
         THEN Raised(this, <<predicate.message>>, <<Call("predicate", this.value, predicate)>>)
         ELSE IF ~Falsy(predicate.ret)
         THEN IF next.throws
              THEN Raised(this, <<next.message>>,
                          <<Call("predicate", this.value, predicate), Call("next", this.value, next)>>)
              ELSE ReturnedRef(this, next.ret,
                               <<Call("predicate", this.value, predicate), Call("next", this.value, next)>>)
         ELSE Returned(this, NewResult(this.value, Undefined),
                       <<Call("predicate", this.value, predicate)>>)
    ELSE Returned(this, NewResult(Undefined, this.error), <<>>)

\* filter that would report the predicate as not satisfied on a failure
filterReplacingFailure(this, predicate, failureProvider, fresh) ==
    IF this.succeeded /\ this.value # Undefined
    THEN IF predicate.throws
         THEN Raised(this, <<predicate.message>>, <<Call("filter", this.value, predicate)>>)
         ELSE IF ~Falsy(predicate.ret)
         THEN Returned(this, NewResult(this.value, Undefined),
                       <<Call("filter", this.value, predicate)>>)
         ELSE IF failureProvider.supplied
         THEN IF failureProvider.throws
              THEN Raised(this, <<failureProvider.message>>,
                          <<Call("filter", this.value, predicate), Call("failureProvider", Undefined, failureProvider)>>)
              ELSE Returned(this, NewResult(Undefined, failureProvider.ret),
                            <<Call("filter", this.value, predicate), Call("failureProvider", Undefined, failureProvider)>>)
         ELSE Returned(this,
                       NewResult(Undefined,
                                 ToStringObject(<<"Predicate not satisfied">>, fresh)),
                       <<Call("filter", this.value, predicate)>>)
    ELSE Returned(this,
                  NewResult(Undefined, ToStringObject(<<"Predicate not satisfied">>, fresh)),
                  <<>>)

\* filter(filter, failureProvider?)
filter(this, predicate, failureProvider, fresh) ==
    IF this.succeeded /\ this.value # Undefined
    THEN IF predicate.throws
         THEN Raised(this, <<predicate.message>>, <<Call("filter", this.value, predicate)>>)
         ELSE IF ~Falsy(predicate.ret)
         THEN Returned(this, NewResult(this.value, Undefined),
                       <<Call("filter", this.value, predicate)>>)
         ELSE IF failureProvider.supplied
         THEN IF failureProvider.throws
              THEN Raised(this, <<failureProvider.message>>,
                          <<Call("filter", this.value, predicate), Call("failureProvider", Undefined, failureProvider)>>)
              ELSE Returned(this, NewResult(Undefined, failureProvider.ret),
                            <<Call("filter", this.value, predicate), Call("failureProvider", Undefined, failureProvider)>>)
         ELSE Returned(this,
                       NewResult(Undefined,
                                 ToStringObject(<<"Predicate not satisfied">>, fresh)),
                       <<Call("filter", this.value, predicate)>>)
    ELSE Returned(this, NewResult(Undefined, this.error), <<>>)

\* mapFailure<FP>(mapper)
mapFailure(this, mapper) ==
    IF this.failed /\ this.error # Undefined
    THEN IF mapper.throws
         THEN Raised(this, <<mapper.message>>, <<Call("mapper", this.error, mapper)>>)
         ELSE Returned(this, NewResult(Undefined, mapper.ret),
                       <<Call("mapper", this.error, mapper)>>)
    ELSE Returned(this, NewResult(this.value, Undefined), <<>>)

\* asFailureOf<SP>(fallback)
asFailureOf(this, fallback) ==
    Returned(this, NewResult(Undefined, Or(this.error, fallback)), <<>>)

\* onSuccess that returns a copy of the receiver instead of the receiver
onSuccessCopying(this, handler, fresh) ==
    IF this.succeeded /\ this.value # Undefined
    THEN IF handler.throws
         THEN Returned(this,
                       errorMessageResult("Result.onSuccess handler threw an error",
                                          handler, fresh),
                       <<Call("handler", this.value, handler)>>)
         ELSE Returned(this, NewResult(this.value, Undefined),
                       <<Call("handler", this.value, handler)>>)
    ELSE Returned(this, NewResult(Undefined, this.error), <<>>)

\* onSuccess(handler)
onSuccess(this, handler, fresh) ==
    IF this.succeeded /\ this.value # Undefined
    THEN IF handler.throws
         THEN Returned(this,
                       errorMessageResult("Result.onSuccess handler threw an error",
                                          handler, fresh),
                       <<Call("handler", this.value, handler)>>)
         ELSE ReturnedThis(this, <<Call("handler", this.value, handler)>>)
    ELSE ReturnedThis(this, <<>>)

\* onFailure that records a handler fault in the receiver's own fields
onFailureAssigning(this, handler, fresh) ==
    IF this.failed /\ this.error # Undefined
    THEN IF handler.throws
         THEN [ReturnedThis(this, <<Call("handler", this.error, handler)>>)
                  EXCEPT !.thisAfter =
                      errorMessageResult("Result.onFailure handler threw an error",
                                         handler, fresh)]
         ELSE ReturnedThis(this, <<Call("handler", this.error, handler)>>)
    ELSE ReturnedThis(this, <<>>)

\* onFailure(handler)
onFailure(this, handler, fresh) ==
    IF this.failed /\ this.error # Undefined
    THEN IF handler.throws
         THEN Returned(this,
                       errorMessageResult("Result.onFailure handler threw an error",
                                          handler, fresh),
                       <<Call("handler", this.error, handler)>>)
         ELSE ReturnedThis(this, <<Call("handler", this.error, handler)>>)
    ELSE ReturnedThis(this, <<>>)

\* always without the try/catch around the handler
alwaysUncaught(this, handler, fresh) ==
    IF handler.throws
    THEN Raised(this, <<handler.message>>, <<Call("handler", Undefined, handler)>>)
    ELSE ReturnedThis(this, <<Call("handler", Undefined, handler)>>)

\* always(handler)
always(this, handler, fresh) ==
    IF handler.throws
    THEN Returned(this,
                  errorMessageResult("Result.onAlways handler threw an error",
                                     handler, fresh),
                  <<Call("handler", Undefined, handler)>>)
    ELSE ReturnedThis(this, <<Call("handler", Undefined, handler)>>)

\* getOrUndefined()
getOrUndefined(this) == ReturnedValue(this, this.value, <<>>)

\* getOrDefault(value)
getOrDefault(this, value) ==
    ReturnedValue(this,
                  IF this.succeeded /\ this.value # Undefined THEN this.value ELSE value,
                  <<>>)

\* getOr(supplier)
getOr(this, supplier) ==
    IF this.succeeded /\ this.value # Undefined
    THEN ReturnedValue(this, this.value, <<>>)
    ELSE IF supplier.throws
    THEN Raised(this, <<supplier.message>>, <<Call("supplier", Undefined, supplier)>>)
    ELSE ReturnedValue(this, supplier.ret, <<Call("supplier", Undefined, supplier)>>)

\* getOrThrow() that would return the absent value of a failure
getOrThrowSilent(this) == ReturnedValue(this, this.value, <<>>)

\* getOrThrow(); Error(undefined) has the empty message
getOrThrow(this) ==
    IF this.succeeded /\ this.value # Undefined
    THEN ReturnedValue(this, this.value, <<>>)
    ELSE Raised(this, IF this.error = Undefined THEN <<"">> ELSE this.error.text, <<>>)

\* failureOrUndefined()
failureOrUndefined(this) == ReturnedValue(this, this.error, <<>>)

\* liftPromise<SP>(), up to the await: suspends on the Promise it holds
liftPromise(this) ==
    IF this.succeeded /\ this.value # Undefined
    THEN IF this.value.kind = "promise"
         THEN Awaiting(this, this.value)
         ELSE Returned(this, NewResult(this.value, Undefined), <<>>)
    ELSE Returned(this, NewResult(Undefined, this.error), <<>>)

\* the guard hasAndThen of liftPromise: 'flatMap' in value
hasAndThen(value) == value.kind = "Result"

\* 'flatMap' in value throws a TypeError when value is not an object
InThrows(value) == value.kind \notin {"object", "Result", "promise"}

\* liftPromise<SP>(), from the await on: promise has settled
liftPromiseSettled(this, promise, fresh) ==
    IF promise.state = "fulfilled"
    THEN IF InThrows(promise.settled)
         THEN Returned(this,
                       NewResult(Undefined,
                                 ToStringObject(<<"TypeError: Cannot use 'in' operator to search for 'flatMap' in ">>
                                                \o promise.settled.text, fresh)),
                       <<>>)
         ELSE IF hasAndThen(promise.settled)
         THEN ReturnedRef(this, promise.settled, <<>>)
         ELSE Returned(this, NewResult(promise.settled, Undefined), <<>>)
    ELSE Returned(this, NewResult(Undefined, promise.settled), <<>>)

(***************************************************************************)
(* The functions over arrays.  An array of Results is the sequence of the  *)
(* fields of its elements.  The function passed in (handler, reducer) is   *)
(* the sequence of what it does at each invocation, in order: it returns a *)
(* Result or throws.                                                       *)
(***************************************************************************)
\* a Result, not tracked on the heap, as a JavaScript value
ResultObject(res) ==
    [kind |-> "Result", text |-> <<"[object Object]">>, id |-> 0, result |-> res]

\* array.map(f) / array.reduce(f): the invocation at which f throws, ending
\* the iteration (0 when f never throws)
FirstThrow(f) ==
    IF \E i \in DOMAIN f : f[i].throws
    THEN CHOOSE i \in DOMAIN f : f[i].throws /\ \A j \in 1 .. i - 1 : ~f[j].throws
    ELSE 0

\* array.map(f): how many times f is invoked
Invocations(f) == IF FirstThrow(f) = 0 THEN Len(f) ELSE FirstThrow(f)

\* results.map(result => result.getOrThrow())
GetOrThrowAll(results) == [i \in DOMAIN results |-> getOrThrow(results[i]).val]

\* the values of the Results, in order
ValuesOf(results) == [i \in DOMAIN results |-> results[i].value]

\* the errors of the Results, in order
ErrorsOf(results) == [i \in DOMAIN results |-> results[i].error]

\* the same, if the outcomes came in the opposite order
SettledOfReversed(promisedResults) ==
    [i \in DOMAIN promisedResults |->
        promisedResults[Len(promisedResults) + 1 - i].settled]

\* promisedResults.map(settled => settled.value) / settled.reason
SettledOf(promisedResults) ==
    [i \in DOMAIN promisedResults |-> promisedResults[i].settled]

\* static fromAll(results) that would count the successes in its message
fromAllCountingSuccesses(results) ==
    LET successes == GetOrThrowAll(SelectSeq(results, LAMBDA result : result.succeeded))
    IN  IF Len(successes) # Len(results)
        THEN Returned(NoReceiver,
                      failureResult(StringValue(
                          <<"All results were not successful; number_failed: ",
                            ToString(Len(successes))>>)),
                      <<>>)
        ELSE Returned(NoReceiver, successResult(ArrayValue(successes)), <<>>)

\* static fromAll(results) / resultFromAll
fromAll(results) ==
    LET successes == GetOrThrowAll(SelectSeq(results, LAMBDA result : result.succeeded))
    IN  IF Len(successes) # Len(results)
        THEN Returned(NoReceiver,
                      failureResult(StringValue(
                          <<"All results were not successful; number_failed: ",
                            ToString(Len(results) - Len(successes))>>)),
                      <<>>)
        ELSE Returned(NoReceiver, successResult(ArrayValue(successes)), <<>>)

\* static fromAny(results) that would keep the payload of every input
fromAnyUnfiltered(results) ==
    Returned(NoReceiver,
             successResult(ArrayValue(
                 [i \in DOMAIN results |-> Or(results[i].value, results[i].error)])),
             <<>>)

\* static fromAny(results) / resultFromAny
fromAny(results) ==
    Returned(NoReceiver,
             successResult(ArrayValue(
                 GetOrThrowAll(SelectSeq(results, LAMBDA result : result.succeeded)))),
             <<>>)

\* forEachResult(resultList, handler)
forEachResult(resultList, handler) ==
    LET n == Invocations(handler)
        calls == [i \in 1 .. n |-> Call("handler", ResultObject(resultList[i]), handler[i])]
        results == [i \in 1 .. n |-> handler[i].res]
        successes == Len(SelectSeq(results, LAMBDA result : result.succeeded))
    IN  IF FirstThrow(handler) # 0
        THEN Raised(NoReceiver, <<handler[n].message>>, calls)
        ELSE IF successes # Len(results)
        THEN Returned(NoReceiver,
                      failureResult(ArrayValue(
                          ErrorsOf(SelectSeq(results,
                                  LAMBDA result : result.failed /\ result.error # Undefined)))),
                      calls)
        ELSE Returned(NoReceiver,
                      successResult(ArrayValue(
                          ValuesOf(SelectSeq(results,
                                  LAMBDA result : result.succeeded /\ result.value # Undefined)))),
                      calls)

\* forEachElement(elems, handler) that would report the first failure only
forEachElementFirstFailure(elems, handler) ==
    LET n == Invocations(handler)
        calls == [i \in 1 .. n |-> Call("handler", elems[i], handler[i])]
        results == [i \in 1 .. n |-> handler[i].res]
        failed == ErrorsOf(SelectSeq(results,
                LAMBDA result : result.failed /\ result.error # Undefined))
    IN  IF FirstThrow(handler) # 0
        THEN Raised(NoReceiver, <<handler[n].message>>, calls)
        ELSE IF Len(SelectSeq(results, LAMBDA result : result.succeeded)) # Len(results)
        THEN Returned(NoReceiver,
                      failureResult(ArrayValue(SubSeq(failed, 1, IF failed = <<>> THEN 0 ELSE 1))),
                      calls)
        ELSE Returned(NoReceiver,
                      successResult(ArrayValue(
                          ValuesOf(SelectSeq(results,
                                  LAMBDA result : result.succeeded /\ result.value # Undefined)))),
                      calls)

\* forEachElement(elems, handler)
forEachElement(elems, handler) ==
    LET n == Invocations(handler)
        calls == [i \in 1 .. n |-> Call("handler", elems[i], handler[i])]
        results == [i \in 1 .. n |-> handler[i].res]
    IN  IF FirstThrow(handler) # 0
        THEN Raised(NoReceiver, <<handler[n].message>>, calls)
        ELSE IF Len(SelectSeq(results, LAMBDA result : result.succeeded)) # Len(results)
        THEN Returned(NoReceiver,
                      failureResult(ArrayValue(
                          ErrorsOf(SelectSeq(results,
                                  LAMBDA result : result.failed /\ result.error # Undefined)))),
                      calls)
        ELSE Returned(NoReceiver,
                      successResult(ArrayValue(
                          ValuesOf(SelectSeq(results,
                                  LAMBDA result : result.succeeded /\ result.value # Undefined)))),
                      calls)

\* the accumulator of reduceToResult after i invocations of the reducer
RECURSIVE Reduced(_, _, _)
Reduced(reducer, initialValue, i) ==
    IF i = 0 THEN initialValue
    ELSE LET reducedValue == Reduced(reducer, initialValue, i - 1)
             result == reducer[i].res
         IN  IF result.error # Undefined THEN reducedValue
             ELSE Or(result.value, reducedValue)

\* reduceToResult(values, reducer, initialValue) that would report a failure
\* only while the accumulator is still the initial value
reduceToResultUnchanged(values, reducer, initialValue) ==
    LET n == Invocations(reducer)
        calls == [i \in 1 .. n |->
                     Call("reducer", <<Reduced(reducer, initialValue, i - 1), values[i]>>,
                          reducer[i])]
        failures == ErrorsOf(SelectSeq([i \in 1 .. n |-> reducer[i].res],
                LAMBDA result : result.error # Undefined))
        reduced == Reduced(reducer, initialValue, n)
    IN  IF FirstThrow(reducer) # 0
        THEN Raised(NoReceiver, <<reducer[n].message>>, calls)
        ELSE IF reduced = Undefined \/ (Len(failures) > 0 /\ reduced = initialValue)
        THEN [Returned(NoReceiver, failureResult(ArrayValue(failures)), calls)
                 EXCEPT !.val = reduced]
        ELSE [Returned(NoReceiver, successResult(reduced), calls)
                 EXCEPT !.val = reduced]

\* reduceToResult(values, reducer, initialValue); val is the final accumulator
reduceToResult(values, reducer, initialValue) ==
    LET n == Invocations(reducer)
        calls == [i \in 1 .. n |->
                     Call("reducer", <<Reduced(reducer, initialValue, i - 1), values[i]>>,
                          reducer[i])]
        failures == ErrorsOf(SelectSeq([i \in 1 .. n |-> reducer[i].res],
                LAMBDA result : result.error # Undefined))
        reduced == Reduced(reducer, initialValue, n)
    IN  IF FirstThrow(reducer) # 0
        THEN Raised(NoReceiver, <<reducer[n].message>>, calls)
        ELSE IF reduced = Undefined \/ Len(failures) > 0
        THEN [Returned(NoReceiver, failureResult(ArrayValue(failures)), calls)
                 EXCEPT !.val = reduced]
        ELSE [Returned(NoReceiver, successResult(reduced), calls)
                 EXCEPT !.val = reduced]

\* a Promise the handler of forEachPromise returned
Pending == [state |-> "pending", settled |-> Undefined]

\* the TypeError of reading a property of undefined
TypeError(property) ==
    ToStringObject(<<"TypeError: Cannot read properties of undefined (reading '",
                     property, "')">>, 0)

\* Promise.all(results), which would reject as soon as one Promise rejects
allSettledFailFast(results) ==
    LET rejected == {i \in DOMAIN results : results[i].state = "rejected"}
    IN  [ready   |-> rejected # {} \/ \A i \in DOMAIN results : results[i].state # "pending",
         rejects |-> rejected # {},
         value   |-> IF rejected # {}
                     THEN <<results[CHOOSE i \in rejected : \A j \in rejected : i <= j]>>
                     ELSE results]

\* Promise.allSettled(results): fulfilled, once every Promise has settled,
\* with their outcomes in the order of results; it never rejects
allSettled(results) ==
    [ready   |-> \A i \in DOMAIN results : results[i].state # "pending",
     rejects |-> FALSE,
     value   |-> results]

\* the fields forEachResult reads of a fulfilled value: those of a Result, and
\* undefined ones of any other value that is not undefined
ReadAsResult(value) ==
    IF value.kind = "Result" THEN value.result ELSE NewResult(Undefined, Undefined)

\* forEachPromise after its await, if it did not look at the rejections
forEachPromiseSettledIgnoringRejections(settlement) ==
    LET succeeded == SettledOf(SelectSeq(settlement.value,
                LAMBDA settled : settled.state = "fulfilled"))
    IN  IF \E i \in DOMAIN succeeded : succeeded[i] = Undefined
        THEN Returned(NoReceiver,
                      failureResult(ArrayValue(<<TypeError("succeeded")>>)), <<>>)
        ELSE Returned(NoReceiver,
                      forEachResult(
                          [i \in DOMAIN succeeded |-> ReadAsResult(succeeded[i])],
                          [i \in DOMAIN succeeded |->
                              NextFn(ReadAsResult(succeeded[i]), 0)]).res,
                      <<>>)

\* forEachPromise after its await, if it added the payloads of the fulfilled
\* failures to the rejection reasons
forEachPromiseSettledMerging(settlement) ==
    IF settlement.rejects
    THEN Returned(NoReceiver,
                  failureResult(ArrayValue(<<settlement.value[1].settled>>)), <<>>)
    ELSE LET promisedResults == settlement.value
             rejected == SettledOf(SelectSeq(promisedResults,
                     LAMBDA settled : settled.state = "rejected"))
                         \o ErrorsOf(SelectSeq(
                                [i \in DOMAIN promisedResults |->
                                    ReadAsResult(promisedResults[i].settled)],
                                LAMBDA result : result.failed))
             succeeded == SettledOf(SelectSeq(promisedResults,
                     LAMBDA settled : settled.state = "fulfilled"))
         IN  IF Len(rejected) > 0
             THEN Returned(NoReceiver, failureResult(ArrayValue(rejected)), <<>>)
             ELSE IF \E i \in DOMAIN succeeded : succeeded[i] = Undefined
             THEN Returned(NoReceiver,
                           failureResult(ArrayValue(<<TypeError("succeeded")>>)), <<>>)
             ELSE Returned(NoReceiver,
                           forEachResult(
                               [i \in DOMAIN succeeded |-> ReadAsResult(succeeded[i])],
                               [i \in DOMAIN succeeded |->
                                   NextFn(ReadAsResult(succeeded[i]), 0)]).res,
                           <<>>)

\* forEachPromise after its await, if it had no try ... catch
forEachPromiseSettledUncaught(settlement) ==
    IF settlement.rejects
    THEN Returned(NoReceiver,
                  failureResult(ArrayValue(<<settlement.value[1].settled>>)), <<>>)
    ELSE LET promisedResults == settlement.value
             rejected == SettledOf(SelectSeq(promisedResults,
                     LAMBDA settled : settled.state = "rejected"))
             succeeded == SettledOf(SelectSeq(promisedResults,
                     LAMBDA settled : settled.state = "fulfilled"))
         IN  IF Len(rejected) > 0
             THEN Returned(NoReceiver, failureResult(ArrayValue(rejected)), <<>>)
             ELSE IF \E i \in DOMAIN succeeded : succeeded[i] = Undefined
             THEN Raised(NoReceiver, TypeError("succeeded").text, <<>>)
             ELSE Returned(NoReceiver,
                           forEachResult(
                               [i \in DOMAIN succeeded |-> ReadAsResult(succeeded[i])],
                               [i \in DOMAIN succeeded |->
                                   NextFn(ReadAsResult(succeeded[i]), 0)]).res,
                           <<>>)

\* forEachPromise(elems, handler) from the point where its await ends with
\* the settlement; a fulfilled value of undefined makes forEachResult throw
forEachPromiseSettled(settlement) ==
    IF settlement.rejects
    THEN Returned(NoReceiver,
                  failureResult(ArrayValue(<<settlement.value[1].settled>>)), <<>>)
    ELSE LET promisedResults == settlement.value
             rejected == SettledOf(SelectSeq(promisedResults,
                     LAMBDA settled : settled.state = "rejected"))
             succeeded == SettledOf(SelectSeq(promisedResults,
                     LAMBDA settled : settled.state = "fulfilled"))
         IN  IF Len(rejected) > 0
             THEN Returned(NoReceiver, failureResult(ArrayValue(rejected)), <<>>)
             ELSE IF \E i \in DOMAIN succeeded : succeeded[i] = Undefined
             THEN Returned(NoReceiver,
                           failureResult(ArrayValue(<<TypeError("succeeded")>>)), <<>>)
             ELSE Returned(NoReceiver,
                           forEachResult(
                               [i \in DOMAIN succeeded |-> ReadAsResult(succeeded[i])],
                               [i \in DOMAIN succeeded |->
                                   NextFn(ReadAsResult(succeeded[i]), 0)]).res,
                           <<>>)

(***************************************************************************)
(* The Optional class.  An Optional is the record of its one field.        *)
(***************************************************************************)
Null == Prim("null", "null")

\* an Error with the message
ErrorValue(message) == [kind |-> "object", text |-> <<"Error: ", message>>, id |-> 0]

\* private constructor(private readonly value)
NewOptional(value) == [value |-> value]

\* static of(value)
of(value) == NewOptional(value)

\* static ofNullable(value?)
ofNullable(value) == NewOptional(value)

\* static empty(): ofNullable() with the argument omitted
empty == ofNullable(Undefined)

\* isEmpty() that would test the value for falsiness
isEmptyFalsy(this) == Falsy(this.value)

\* isEmpty()
isEmpty(this) == this.value = Null \/ this.value = Undefined

\* isNotEmpty()
isNotEmpty(this) == this.value # Null /\ this.value # Undefined

\* getOrElse(defaultValue)
getOrElse(this, defaultValue) ==
    IF isNotEmpty(this)
    THEN ReturnedValue(this, this.value, <<>>)
    ELSE ReturnedValue(this, defaultValue, <<>>)

\* Optional.getOrThrow(supplier) that would test the value for truthiness
optionalGetOrThrowTruthy(this, supplier) ==
    IF ~Falsy(this.value)
    THEN ReturnedValue(this, this.value, <<>>)
    ELSE IF supplier.throws
    THEN Raised(this, <<supplier.message>>, <<Call("supplier", Undefined, supplier)>>)
    ELSE Raised(this, supplier.ret.text, <<Call("supplier", Undefined, supplier)>>)

\* Optional.getOrThrow(supplier): throw supplier()
optionalGetOrThrow(this, supplier) ==
    IF isNotEmpty(this)
    THEN ReturnedValue(this, this.value, <<>>)
    ELSE IF supplier.throws
    THEN Raised(this, <<supplier.message>>, <<Call("supplier", Undefined, supplier)>>)
    ELSE Raised(this, supplier.ret.text, <<Call("supplier", Undefined, supplier)>>)

\* Optional.map(mapper) that would wrap the value it was given
optionalMapKeeping(this, mapper) ==
    IF isNotEmpty(this)
    THEN IF mapper.throws
         THEN Raised(this, <<mapper.message>>, <<Call("mapper", this.value, mapper)>>)
         ELSE Returned(this, ofNullable(this.value), <<Call("mapper", this.value, mapper)>>)
    ELSE Returned(this, empty, <<>>)

\* Optional.map(mapper)
optionalMap(this, mapper) ==
    IF isNotEmpty(this)
    THEN IF mapper.throws
         THEN Raised(this, <<mapper.message>>, <<Call("mapper", this.value, mapper)>>)
         ELSE Returned(this, ofNullable(mapper.ret), <<Call("mapper", this.value, mapper)>>)
    ELSE Returned(this, empty, <<>>)

\* Optional.filter(predicate)
optionalFilter(this, predicate) ==
    IF isNotEmpty(this)
    THEN IF predicate.throws
         THEN Raised(this, <<predicate.message>>,
                     <<Call("predicate", this.value, predicate)>>)
         ELSE IF ~Falsy(predicate.ret)
         THEN Returned(this, ofNullable(this.value),
                       <<Call("predicate", this.value, predicate)>>)
         ELSE Returned(this, empty, <<Call("predicate", this.value, predicate)>>)
    ELSE Returned(this, empty, <<>>)

(***************************************************************************)
(* The state machine.                                                      *)
(***************************************************************************)
\* no call of forEachPromise is in progress
Idle == [phase |-> "idle", elems |-> <<>>, calls |-> <<>>, results |-> <<>>,
         order |-> <<>>]

\* the values a caller can pass in the current state
Values == Payload \cup {PromiseValue(p) : p \in DOMAIN promises}

\* the identity of the next object that is constructed
Fresh == Len(heap) + 1

\* the functions S -> Result a caller can pass in the current state: they
\* return an instance of the heap, or construct one, or throw
Nexts ==
    {NextFn(heap[i], i) : i \in DOMAIN heap}
    \cup {NextFn(successResult(v), Fresh) : v \in Values}
    \cup {NextFn(failureResult(v), Fresh) : v \in Values}
    \cup {Fn(TRUE, Undefined, m) : m \in Messages}

\* the Results that the functions a call invoked constructed, in order
Constructed(calls) ==
    LET made == SelectSeq(calls, LAMBDA c : ~c.throws /\ c.ret.kind = "Result"
                                            /\ c.ret.id \notin DOMAIN heap)
    IN  [i \in DOMAIN made |-> made[i].res]

\* the heap after a call on the receiver recv that ended as o
HeapAfter(recv, o) ==
    LET h == [heap EXCEPT ![recv] = o.thisAfter] \o Constructed(o.calls)
    IN  IF o.kind = "new" THEN Append(h, o.res) ELSE h

\* the instance a call returned (0 when it returned none)
RetOf(recv, o) ==
    CASE o.kind = "new" -> Len(HeapAfter(recv, o))
      [] o.kind = "this" -> recv
      [] o.kind = "ref" -> o.ref
      [] OTHER -> 0

Init ==
    /\ heap = <<>>
    /\ promises = <<>>
    /\ lifts = <<>>
    /\ each = Idle
    /\ last = [op |-> "init", recv |-> 0, pre |-> NoReceiver, ret |-> 0,
               arg |-> Undefined,
               out |-> ReturnedValue(NoReceiver, Undefined, <<>>)]

\* a factory call
Construct(op, res) ==
    /\ Len(heap) < MaxObjs
    /\ heap' = Append(heap, res)
    /\ last' = [op |-> op, recv |-> 0, pre |-> NoReceiver, ret |-> Len(heap) + 1,
                arg |-> Undefined,
                out |-> Returned(NoReceiver, res, <<>>)]
    /\ UNCHANGED <<promises, lifts, each>>

\* a call on the receiver recv, passed the value arg, that ended as o
EndsWith(op, recv, arg, o) ==
    /\ Len(HeapAfter(recv, o)) <= MaxObjs
    /\ heap' = HeapAfter(recv, o)
    /\ last' = [op |-> op, recv |-> recv, pre |-> heap[recv], ret |-> RetOf(recv, o),
                arg |-> arg, out |-> o]
    /\ UNCHANGED each

\* a call on the receiver recv that ended as o
Ends(op, recv, o) == EndsWith(op, recv, Undefined, o)

\* a synchronous method call on the receiver recv that ended as o
Do(op, recv, o) ==
    /\ Ends(op, recv, o)
    /\ UNCHANGED <<promises, lifts>>

CallSuccessResult == \E v \in Values : Construct("successResult", successResult(v))

CallFailureResult == \E v \in Values : Construct("failureResult", failureResult(v))

CallMap ==
    \E r \in DOMAIN heap, mapper \in Mappers(Values) : Do("map", r, map(heap[r], mapper))

CallFlatMap ==
    \E r \in DOMAIN heap, next \in Nexts : Do("flatMap", r, flatMap(heap[r], next))

CallAndThen ==
    \E r \in DOMAIN heap, next \in Nexts : Do("andThen", r, andThen(heap[r], next))

CallConditionalMap ==
    \E r \in DOMAIN heap, predicate \in Predicates, mapper \in Mappers(Values) :
        Do("conditionalMap", r, conditionalMap(heap[r], predicate, mapper))

CallConditionalFlatMap ==
    \E r \in DOMAIN heap, predicate \in Predicates, next \in Nexts :
        Do("conditionalFlatMap", r, conditionalFlatMap(heap[r], predicate, next))

CallFilter ==
    \E r \in DOMAIN heap, predicate \in Predicates,
       failureProvider \in Mappers(Values) \cup {NoFn} :
        Do("filter", r, filter(heap[r], predicate, failureProvider, Fresh))

CallMapFailure ==
    \E r \in DOMAIN heap, mapper \in Mappers(Values) :
        Do("mapFailure", r, mapFailure(heap[r], mapper))

CallAsFailureOf ==
    \E r \in DOMAIN heap, fallback \in Values :
        Do("asFailureOf", r, asFailureOf(heap[r], fallback))

CallOnSuccess ==
    \E r \in DOMAIN heap, handler \in Handlers :
        Do("onSuccess", r, onSuccess(heap[r], handler, Fresh))

CallOnFailure ==
    \E r \in DOMAIN heap, handler \in Handlers :
        Do("onFailure", r, onFailure(heap[r], handler, Fresh))

CallAlways ==
    \E r \in DOMAIN heap, handler \in Handlers :
        Do("always", r, always(heap[r], handler, Fresh))

CallGetOrUndefined ==
    \E r \in DOMAIN heap : Do("getOrUndefined", r, getOrUndefined(heap[r]))

CallGetOrDefault ==
    \E r \in DOMAIN heap, value \in Values :
        /\ EndsWith("getOrDefault", r, value, getOrDefault(heap[r], value))
        /\ UNCHANGED <<promises, lifts>>

CallGetOr ==
    \E r \in DOMAIN heap, supplier \in Mappers(Values) :
        Do("getOr", r, getOr(heap[r], supplier))

CallGetOrThrow ==
    \E r \in DOMAIN heap : Do("getOrThrow", r, getOrThrow(heap[r]))

CallFailureOrUndefined ==
    \E r \in DOMAIN heap : Do("failureOrUndefined", r, failureOrUndefined(heap[r]))

\* the caller creates a Promise
CreatePromise ==
    /\ Len(promises) < MaxPromises
    /\ promises' = Append(promises, [state |-> "pending", settled |-> Undefined])
    /\ UNCHANGED <<heap, last, lifts, each>>

\* a pending Promise is fulfilled with a value or rejected with a reason
SettlePromise ==
    \E p \in DOMAIN promises, state \in {"fulfilled", "rejected"},
       v \in Payload \cup {PlainObject} \cup {ResultValue(i) : i \in DOMAIN heap} :
        /\ promises[p].state = "pending"
        /\ promises' = [promises EXCEPT ![p] = [state |-> state, settled |-> v]]
        /\ UNCHANGED <<heap, last, lifts, each>>

\* liftPromise is called and runs up to its await or to its return
CallLiftPromise ==
    \E r \in DOMAIN heap :
        LET o == liftPromise(heap[r])
        IN  /\ o.kind = "await" => Len(lifts) < MaxLifts
            /\ Ends("liftPromise", r, o)
            /\ lifts' = IF o.kind = "await"
                        THEN Append(lifts, [recv |-> r, promise |-> o.val.id])
                        ELSE lifts
            /\ UNCHANGED promises

\* a suspended liftPromise resumes once the Promise it awaits has settled
ResumeLiftPromise ==
    \E k \in DOMAIN lifts :
        /\ promises[lifts[k].promise].state # "pending"
        /\ Ends("liftPromise.settled", lifts[k].recv,
                liftPromiseSettled(heap[lifts[k].recv], promises[lifts[k].promise], Fresh))
        /\ lifts' = [i \in 1 .. Len(lifts) - 1 |-> IF i < k THEN lifts[i] ELSE lifts[i + 1]]
        /\ UNCHANGED promises

\* the synchronous interface
Next ==
    \/ CallSuccessResult
    \/ CallFailureResult
    \/ CallMap
    \/ CallFlatMap
    \/ CallAndThen
    \/ CallConditionalMap
    \/ CallConditionalFlatMap
    \/ CallFilter
    \/ CallMapFailure
    \/ CallAsFailureOf
    \/ CallOnSuccess
    \/ CallOnFailure
    \/ CallAlways
    \/ CallGetOrUndefined
    \/ CallGetOrDefault
    \/ CallGetOr
    \/ CallGetOrThrow
    \/ CallFailureOrUndefined
    \/ CallLiftPromise

Spec == Init /\ [][Next]_vars

\* Results that hold Promises, and liftPromise
NextLift ==
    \/ CallSuccessResult
    \/ CallFailureResult
    \/ CreatePromise
    \/ SettlePromise
    \/ CallLiftPromise
    \/ ResumeLiftPromise

SpecLift == Init /\ [][NextLift]_vars

(***************************************************************************)
(* Equality.  The Results compared are built by the factories from the     *)
(* payloads that === tells apart or not: primitives, NaN, and two object   *)
(* literals.                                                               *)
(***************************************************************************)
EqualityPayload == Payload \cup {NaN, ObjectValue(1), ObjectValue(2)}

\* every Result the factories build from the payloads
FactoryResults(payload) ==
    {successResult(v) : v \in payload} \cup {failureResult(v) : v \in payload}

InitEquals ==
    /\ \E n \in 1 .. MaxObjs : heap \in [1 .. n -> FactoryResults(EqualityPayload)]
    /\ promises = <<>>
    /\ lifts = <<>>
    /\ each = Idle
    /\ last = [op |-> "init", recv |-> 0, pre |-> NoReceiver, ret |-> 0,
               arg |-> Undefined,
               out |-> ReturnedValue(NoReceiver, Undefined, <<>>)]

CallEquals ==
    \E a \in DOMAIN heap, b \in DOMAIN heap :
        /\ EndsWith("equals", a, ResultValue(b), equals(heap[a], heap[b]))
        /\ UNCHANGED <<promises, lifts>>

CallNonEqual ==
    \E a \in DOMAIN heap, b \in DOMAIN heap :
        /\ EndsWith("nonEqual", a, ResultValue(b), nonEqual(heap[a], heap[b]))
        /\ UNCHANGED <<promises, lifts>>

\* r.map(x => x).equals(r): the mapped Result is constructed, then compared
CallMapEquals ==
    \E r \in DOMAIN heap :
        LET mapped == map(heap[r], Fn(FALSE, heap[r].value, ""))
            o == equals(mapped.res, heap[r])
        IN  /\ Len(heap) < MaxObjs
            /\ heap' = Append(heap, mapped.res)
            /\ last' = [op |-> "map.equals", recv |-> r, pre |-> heap[r],
                        ret |-> Len(heap) + 1, arg |-> ResultValue(r),
                        out |-> ReturnedValue(heap[r], o.val, mapped.calls)]
            /\ UNCHANGED <<promises, lifts, each>>

NextEquals ==
    \/ CallEquals
    \/ CallNonEqual
    \/ CallMapEquals

SpecEquals == InitEquals /\ [][NextEquals]_vars

(***************************************************************************)
(* The functions over arrays, applied to every array of at most MaxLen     *)
(* elements.                                                               *)
(***************************************************************************)
\* every array of at most MaxLen elements of the set
Arrays(set) == UNION {[1 .. n -> set] : n \in 0 .. MaxLen}

\* every array of exactly n elements of the set
ArraysOf(set, n) == [1 .. n -> set]

\* the elements of the arrays a caller passes
Elements == {Zero, StrA}

\* the Results passed to a handler
Inputs == {successResult(StrA), failureResult(StrA)}

\* what a handler or a reducer does at one invocation: it returns a Result
\* the factories built, or throws
Returns ==
    {NextFn(res, 0) : res \in FactoryResults(Payload)}
    \cup {Fn(TRUE, Undefined, m) : m \in Messages}

\* a call of a function over arrays, passed arg, that ended as o
Applied(op, arg, o) ==
    /\ last' = [op |-> op, recv |-> 0, pre |-> NoReceiver, ret |-> 0, arg |-> arg,
                out |-> o]
    /\ UNCHANGED <<heap, promises, lifts, each>>

\* no function was called yet: a behaviour is one call on one input
NotCalled == last.op = "init"

CallResultFromAll ==
    /\ NotCalled
    /\ \E results \in Arrays(FactoryResults(Payload)) :
           Applied("resultFromAll", results, fromAll(results))

CallResultFromAny ==
    /\ NotCalled
    /\ \E results \in Arrays(FactoryResults(Payload)) :
           Applied("resultFromAny", results, fromAny(results))

CallForEachResult ==
    /\ NotCalled
    /\ \E resultList \in Arrays(Inputs) :
           \E handler \in ArraysOf(Returns, Len(resultList)) :
               Applied("forEachResult", resultList, forEachResult(resultList, handler))

CallForEachElement ==
    /\ NotCalled
    /\ \E elems \in Arrays(Elements) :
           \E handler \in ArraysOf(Returns, Len(elems)) :
               Applied("forEachElement", [elems |-> elems, handler |-> handler],
                       forEachElement(elems, handler))

CallReduceToResult ==
    /\ NotCalled
    /\ \E values \in Arrays(Elements), initialValue \in Payload :
           \E reducer \in ArraysOf(Returns, Len(values)) :
               Applied("reduceToResult", [values |-> values, initialValue |-> initialValue],
                       reduceToResult(values, reducer, initialValue))

NextArrays ==
    \/ CallResultFromAll
    \/ CallResultFromAny
    \/ CallForEachResult
    \/ CallForEachElement
    \/ CallReduceToResult

SpecArrays == Init /\ [][NextArrays]_vars

(***************************************************************************)
(* forEachPromise.  One call: the handler is invoked on the elements, the  *)
(* Promises it returned settle in any order, and the call resumes from its *)
(* await.                                                                  *)
(***************************************************************************)
\* every array of at most MaxElems elements
ElemArrays == UNION {[1 .. n -> Elements] : n \in 0 .. MaxElems}

\* the Results a Promise of the handler is fulfilled with
PromisedResults == FactoryResults({Undefined, Zero, StrA})

\* the reasons a Promise of the handler is rejected with
Reasons == {Zero, StrA}

\* what the handler does at one invocation: it returns a Promise, or throws
PromiseHandlers ==
    {Fn(FALSE, PromiseValue(0), "")} \cup {Fn(TRUE, Undefined, m) : m \in Messages}

\* forEachPromise(elems, handler) is called with one of the arrays
ForEachPromiseCalled(arrays) ==
    /\ each.phase = "idle"
    /\ \E elems \in arrays :
           each' = [Idle EXCEPT !.phase = "mapping", !.elems = elems]
    /\ UNCHANGED <<heap, last, promises, lifts>>

\* forEachPromise(elems, handler) is called
CallForEachPromise == ForEachPromiseCalled(ElemArrays)

\* forEachPromise(elems, handler) is called with elements that are all alike:
\* how the Promises settle does not depend on the elements
CallForEachPromiseAlike ==
    ForEachPromiseCalled(UNION {[1 .. n -> {Zero}] : n \in 0 .. MaxElems})

\* elems.map(elem => handler(elem)) invokes the handler on the next element;
\* a handler that throws ends the call, whose Promise is rejected
InvokeHandler ==
    /\ each.phase = "mapping"
    /\ Len(each.calls) < Len(each.elems)
    /\ \E handler \in PromiseHandlers :
           LET call == Call("handler", each.elems[Len(each.calls) + 1], handler)
           IN  IF handler.throws
               THEN /\ each' = [each EXCEPT !.phase = "rejected",
                                            !.calls = Append(@, call)]
                    /\ last' = [op |-> "forEachPromise", recv |-> 0, pre |-> NoReceiver,
                                ret |-> 0, arg |-> ArrayValue(each.elems),
                                out |-> Raised(NoReceiver, <<handler.message>>,
                                               Append(each.calls, call))]
               ELSE /\ each' = [each EXCEPT !.calls = Append(@, call),
                                            !.results = Append(@, Pending)]
                    /\ UNCHANGED last
    /\ UNCHANGED <<heap, promises, lifts>>

\* await Promise.allSettled(results): the call suspends
AwaitAllSettled ==
    /\ each.phase = "mapping"
    /\ Len(each.calls) = Len(each.elems)
    /\ each' = [each EXCEPT !.phase = "awaiting"]
    /\ UNCHANGED <<heap, last, promises, lifts>>

\* a pending Promise of the handler is fulfilled or rejected
SettleResult ==
    /\ \E i \in DOMAIN each.results :
           /\ each.results[i].state = "pending"
           /\ \E settled \in
                   {[state |-> "fulfilled", settled |-> ResultObject(res)] :
                       res \in PromisedResults}
                   \cup {[state |-> "fulfilled", settled |-> v] : v \in {Undefined, Zero}}
                   \cup {[state |-> "rejected", settled |-> reason] : reason \in Reasons} :
                  each' = [each EXCEPT !.results[i] = settled, !.order = Append(@, i)]
    /\ UNCHANGED <<heap, last, promises, lifts>>

\* the call resumes from its await and returns; an error it let escape
\* would reject its Promise
ResumeForEachPromise ==
    /\ each.phase = "awaiting"
    /\ allSettled(each.results).ready
    /\ each' = [each EXCEPT !.phase =
                    IF forEachPromiseSettled(allSettled(each.results)).kind = "raise"
                    THEN "rejected" ELSE "done"]
    /\ last' = [op |-> "forEachPromise", recv |-> 0, pre |-> NoReceiver, ret |-> 0,
                arg |-> ArrayValue(each.elems),
                out |-> [forEachPromiseSettled(allSettled(each.results))
                            EXCEPT !.calls = each.calls]]
    /\ UNCHANGED <<heap, promises, lifts>>

NextEach ==
    \/ CallForEachPromise
    \/ InvokeHandler
    \/ AwaitAllSettled
    \/ SettleResult
    \/ ResumeForEachPromise

SpecEach == Init /\ [][NextEach]_vars

\* the calls whose progress is followed
NextEachFair ==
    \/ CallForEachPromiseAlike
    \/ InvokeHandler
    \/ AwaitAllSettled
    \/ SettleResult
    \/ ResumeForEachPromise

\* the event loop runs every step that is ready, and every Promise the
\* handler returned settles in the end
SpecEachFair ==
    /\ Init
    /\ [][NextEachFair]_vars
    /\ WF_vars(InvokeHandler)
    /\ WF_vars(AwaitAllSettled)
    /\ WF_vars(SettleResult)
    /\ WF_vars(ResumeForEachPromise)

(***************************************************************************)
(* Optional.  A behaviour is a chain: an Optional is built by a factory,   *)
(* and every call is made on the Optional the chain has reached.           *)
(***************************************************************************)
\* the values an Optional is built from and a mapper returns
OptionalValues == {Null, Undefined, Zero, EmptyString, False, StrA}

\* the suppliers of an error
Suppliers ==
    {Fn(FALSE, ErrorValue(m), "") : m \in Messages}
    \cup {Fn(TRUE, Undefined, m) : m \in Messages}

\* the operations of Optional
OptionalOps ==
    {"of", "ofNullable", "empty", "isEmpty", "isNotEmpty", "getOrElse",
     "Optional.getOrThrow", "Optional.map", "Optional.filter"}

\* the chain has reached an Optional
InChain == last.op \in OptionalOps

\* the Optional the chain has reached
Current == last.out.res

\* a call on the Optional this (the factories have none), passed arg, that
\* ended as o
Chained(op, this, arg, o) ==
    /\ last' = [op |-> op, recv |-> 0, pre |-> this, ret |-> 0, arg |-> arg, out |-> o]
    /\ UNCHANGED <<heap, promises, lifts, each>>

\* Optional.of(value): value is NonNullable
CallOf ==
    \E value \in OptionalValues \ {Null, Undefined} :
        Chained("of", empty, value, Returned(empty, of(value), <<>>))

CallOfNullable ==
    \E value \in OptionalValues :
        Chained("ofNullable", empty, value, Returned(empty, ofNullable(value), <<>>))

CallEmpty == Chained("empty", empty, Undefined, Returned(empty, empty, <<>>))

CallIsEmpty ==
    /\ InChain
    /\ Chained("isEmpty", Current, Undefined,
               ReturnedValue(Current, Bool(isEmpty(Current)), <<>>))

CallIsNotEmpty ==
    /\ InChain
    /\ Chained("isNotEmpty", Current, Undefined,
               ReturnedValue(Current, Bool(isNotEmpty(Current)), <<>>))

CallGetOrElse ==
    /\ InChain
    /\ \E defaultValue \in OptionalValues :
           Chained("getOrElse", Current, defaultValue, getOrElse(Current, defaultValue))

CallOptionalGetOrThrow ==
    /\ InChain
    /\ \E supplier \in Suppliers :
           Chained("Optional.getOrThrow", Current, Undefined,
                   optionalGetOrThrow(Current, supplier))

CallOptionalMap ==
    /\ InChain
    /\ \E mapper \in Mappers(OptionalValues) :
           Chained("Optional.map", Current, Undefined, optionalMap(Current, mapper))

CallOptionalFilter ==
    /\ InChain
    /\ \E predicate \in Predicates :
           Chained("Optional.filter", Current, Undefined,
                   optionalFilter(Current, predicate))

NextOptional ==
    \/ CallOf
    \/ CallOfNullable
    \/ CallEmpty
    \/ CallIsEmpty
    \/ CallIsNotEmpty
    \/ CallGetOrElse
    \/ CallOptionalGetOrThrow
    \/ CallOptionalMap
    \/ CallOptionalFilter

SpecOptional == Init /\ [][NextOptional]_vars

(***************************************************************************)
(* The properties.  They are stated over the last call: its receiver       *)
(* before the call (last.pre), the functions it invoked with their         *)
(* arguments and results (last.out.calls) and the instance it returned     *)
(* (heap[last.ret]).                                                       *)
(***************************************************************************)
Receiver == last.pre
Calls == last.out.calls
Result == heap[last.ret]
ReturnedResult == last.ret \in DOMAIN heap

\* the call invoked exactly the function name, once, with the argument arg
InvokedOnce(name, arg) ==
    Len(Calls) = 1 /\ Calls[1].fn = name /\ Calls[1].arg = arg

\* some function the call invoked threw
HandlerThrew == \E i \in DOMAIN Calls : Calls[i].throws

\* C1: every Result built by the factories and the combinators, for every
\* payload including undefined, is in exactly one state: succeeded and failed
\* are never equal; successResult(v).succeeded and failureResult(e).failed
\* are true.
C1_ExactlyOneState ==
    /\ \A i \in DOMAIN heap : heap[i].succeeded # heap[i].failed
    /\ last.op = "successResult" => Result.succeeded
    /\ last.op = "failureResult" => Result.failed

\* C2: no operation mutates its receiver (nor any other instance): the
\* fields of every instance of the heap are the same after every call,
\* whether it returns, a handler throws or it raises.
C2_NoMutation == [][\A i \in DOMAIN heap : heap'[i] = heap[i]]_vars

\* C2 witness: onFailure ran on a failure, its handler threw, and the
\* receiver still holds what it held
C2_Witness ==
    /\ last.op = "onFailure"
    /\ Receiver.failed
    /\ HandlerThrew
    /\ heap[last.recv] = Receiver

\* C3: map on a success with value v invokes mapper once, with v, and gives
\* a success whose value is mapper(v); on a failure with payload e it gives
\* a failure with payload e and does not invoke mapper.
C3_Map ==
    last.op = "map" =>
        /\ Receiver.succeeded =>
              /\ InvokedOnce("mapper", Receiver.value)
              /\ ~HandlerThrew =>
                    /\ ReturnedResult
                    /\ Result.succeeded
                    /\ Result.value = Calls[1].ret
        /\ Receiver.failed =>
              /\ Calls = <<>>
              /\ ReturnedResult
              /\ Result.failed
              /\ Result.error = Receiver.error

\* C4: flatMap (and andThen) on a success with value v returns exactly the
\* instance next(v) returned, so a failure when that is one; on a failure
\* with payload e it returns a failure with payload e and does not invoke
\* next.
C4_FlatMap ==
    last.op \in {"flatMap", "andThen"} =>
        /\ Receiver.succeeded =>
              /\ InvokedOnce("next", Receiver.value)
              /\ ~HandlerThrew =>
                    /\ last.ret = Calls[1].ret.id
                    /\ ReturnedResult
                    /\ Result = Calls[1].res
        /\ Receiver.failed =>
              /\ Calls = <<>>
              /\ ReturnedResult
              /\ Result.failed
              /\ Result.error = Receiver.error

\* C4 witness: flatMap on a success whose next returned a failure, which is
\* the Result of the call
C4_Witness ==
    /\ last.op = "flatMap"
    /\ Receiver.succeeded
    /\ InvokedOnce("next", Receiver.value)
    /\ ReturnedResult
    /\ Result.failed

\* C5: conditionalMap and conditionalFlatMap on a success with value v give,
\* when predicate(v) is true, a success with value mapper(v) (respectively
\* the instance next(v) returned) and, when it is false, a success with v
\* without invoking mapper/next; on a failure with payload e they give a
\* failure with payload e and invoke neither function.
C5_Conditional ==
    last.op \in {"conditionalMap", "conditionalFlatMap"} =>
        /\ (Receiver.succeeded /\ ~HandlerThrew) =>
              /\ Len(Calls) >= 1
              /\ Calls[1].fn = "predicate" /\ Calls[1].arg = Receiver.value
              /\ ReturnedResult
              /\ Calls[1].ret = True =>
                    /\ Len(Calls) = 2
                    /\ Calls[2].arg = Receiver.value
                    /\ last.op = "conditionalMap" =>
                          /\ Calls[2].fn = "mapper"
                          /\ Result.succeeded
                          /\ Result.value = Calls[2].ret
                    /\ last.op = "conditionalFlatMap" =>
                          /\ Calls[2].fn = "next"
                          /\ last.ret = Calls[2].ret.id
                          /\ Result = Calls[2].res
              /\ Calls[1].ret = False =>
                    /\ Len(Calls) = 1
                    /\ Result.succeeded
                    /\ Result.value = Receiver.value
        /\ Receiver.failed =>
              /\ Calls = <<>>
              /\ ReturnedResult
              /\ Result.failed
              /\ Result.error = Receiver.error

\* C6: filter on a success with value v gives a success with v when
\* predicate(v) holds and never invokes failureProvider then; otherwise a
\* failure whose payload is failureProvider() when one is supplied, else a
\* payload whose string form is "Predicate not satisfied"; on a failure with
\* payload e it gives a failure with e and invokes neither function.
C6_Filter ==
    last.op = "filter" =>
        /\ (Receiver.succeeded /\ ~HandlerThrew) =>
              /\ Len(Calls) >= 1
              /\ Calls[1].fn = "filter" /\ Calls[1].arg = Receiver.value
              /\ ReturnedResult
              /\ Calls[1].ret = True =>
                    /\ Len(Calls) = 1
                    /\ Result.succeeded
                    /\ Result.value = Receiver.value
              /\ Calls[1].ret = False =>
                    /\ Result.failed
                    /\ Len(Calls) = 2 =>
                          /\ Calls[2].fn = "failureProvider"
                          /\ Result.error = Calls[2].ret
                    /\ Len(Calls) = 1 =>
                          Result.error.text = <<"Predicate not satisfied">>
        /\ Receiver.failed =>
              /\ Calls = <<>>
              /\ ReturnedResult
              /\ Result.failed
              /\ Result.error = Receiver.error

\* C7: mapFailure on a failure with payload e gives a failure with payload
\* mapper(e); on a success with value v it gives a success with v and does
\* not invoke mapper.
C7_MapFailure ==
    last.op = "mapFailure" =>
        /\ Receiver.failed =>
              /\ InvokedOnce("mapper", Receiver.error)
              /\ ~HandlerThrew =>
                    /\ ReturnedResult
                    /\ Result.failed
                    /\ Result.error = Calls[1].ret
        /\ Receiver.succeeded =>
              /\ Calls = <<>>
              /\ ReturnedResult
              /\ Result.succeeded
              /\ Result.value = Receiver.value

\* C8: asFailureOf(fallback) always returns a failed Result; on a failure
\* with payload e the returned failure carries e, for every e including ''
\* and 0.
C8_AsFailureOf ==
    last.op = "asFailureOf" =>
        /\ ReturnedResult
        /\ Result.failed
        /\ Receiver.failed => Result.error = Receiver.error

\* C9: when the handler does not throw, onSuccess invokes it once with the
\* value on a success and not at all on a failure, onFailure invokes it once
\* with the payload on a failure and not at all on a success, always invokes
\* it once in either state, and each returns the receiver itself.
C9_Handlers ==
    (last.op \in {"onSuccess", "onFailure", "always"} /\ ~HandlerThrew) =>
        /\ last.op = "onSuccess" =>
              /\ Receiver.succeeded => InvokedOnce("handler", Receiver.value)
              /\ Receiver.failed => Calls = <<>>
        /\ last.op = "onFailure" =>
              /\ Receiver.failed => InvokedOnce("handler", Receiver.error)
              /\ Receiver.succeeded => Calls = <<>>
        /\ last.op = "always" => Len(Calls) = 1 /\ Calls[1].fn = "handler"
        /\ last.ret = last.recv
        /\ Result = Receiver

\* C9 witness: onSuccess on a success invoked its handler, which returned,
\* and the call returned the receiver
C9_Witness ==
    /\ last.op = "onSuccess"
    /\ Receiver.succeeded
    /\ InvokedOnce("handler", Receiver.value)
    /\ ~HandlerThrew
    /\ last.ret = last.recv

\* the text that names each handler-invoking operation in a handler fault
FaultText(op) ==
    CASE op = "onSuccess" -> "Result.onSuccess handler threw an error"
      [] op = "onFailure" -> "Result.onFailure handler threw an error"
      [] op = "always" -> "Result.onAlways handler threw an error"

\* C10: when the handler of onSuccess, onFailure or always throws, the call
\* does not raise: it returns a new failed Result, also when the receiver
\* was a success, whose payload's string form names the operation and
\* includes the message of the thrown error.
C10_HandlerFault ==
    (last.op \in {"onSuccess", "onFailure", "always"} /\ HandlerThrew) =>
        /\ last.out.kind # "raise"
        /\ ReturnedResult
        /\ last.ret # last.recv
        /\ Result.failed
        /\ Result.error.text[1] = FaultText(last.op)
        /\ \E i \in DOMAIN Result.error.text : Result.error.text[i] = Calls[1].message

\* C10 witness: the handler of always threw on a success, and the call
\* returned a failure
C10_Witness ==
    /\ last.op = "always"
    /\ Receiver.succeeded
    /\ HandlerThrew
    /\ ReturnedResult
    /\ Result.failed

\* the operations that unwrap a Result
Unwraps == {"getOrUndefined", "getOrDefault", "getOr", "getOrThrow", "failureOrUndefined"}

Other == heap[last.arg.id]

\* C12: a.equals(b) is true exactly when both are successes with equal
\* values or both are failures with equal payloads; a success built by the
\* factory never equals a failure built by the factory, in either order, even
\* with the same payload; a.nonEqual(b) is the negation of a.equals(b).
C12_Equals ==
    /\ last.op = "equals" =>
           (last.out.val = True <=>
               \/ Receiver.succeeded /\ Other.succeeded
                  /\ StrictEquals(Receiver.value, Other.value)
               \/ Receiver.failed /\ Other.failed
                  /\ StrictEquals(Receiver.error, Other.error))
    /\ last.op = "nonEqual" =>
           last.out.val = Bool(equals(Receiver, Other).val = False)

\* C13 as stated: r.map(x => x).equals(r) is true for every Result r the
\* factories build, success or failure, whatever its payload.
C13_MapIdentityAnyPayload ==
    last.op = "map.equals" => last.out.val = True

\* the payload of a Result
PayloadOf(r) == IF r.succeeded THEN r.value ELSE r.error

\* C13: r.map(x => x).equals(r) is true for every Result r the factories
\* build, success or failure, whose payload is strictly equal to itself,
\* that is every payload but NaN; the mapper is the identity, invoked at
\* most once.
C13_MapIdentity ==
    (last.op = "map.equals" /\ StrictEquals(PayloadOf(Receiver), PayloadOf(Receiver))) =>
        /\ last.out.val = True
        /\ Len(Calls) <= 1
        /\ \A i \in DOMAIN Calls : Calls[i].ret = Calls[i].arg

\* C13 witness: the identity was mapped over a success holding an object and
\* over nothing else, and the result equals the receiver
C13_Witness ==
    /\ last.op = "map.equals"
    /\ Receiver.succeeded
    /\ Receiver.value = ObjectValue(1)
    /\ Len(Calls) = 1
    /\ last.out.val = True

\* the Result a function over arrays returned
Outcome == last.out.res

\* the Results the handler or the reducer returned, in the order of its
\* invocations
ReturnedResults == [i \in DOMAIN Calls |-> Calls[i].res]

\* the indexes of the Results of the array that did not succeed
NotSucceeded(results) == {i \in DOMAIN results : ~results[i].succeeded}

\* the array elems holds values[i] for exactly the indexes i of the set,
\* in increasing order of i
Lists(elems, set, values) ==
    /\ Len(elems) = Cardinality(set)
    /\ \A i \in set : elems[Cardinality({j \in set : j <= i})] = values[i]

\* C14: resultFromAll returns a success exactly when every input succeeded,
\* and then its value is the array of all input values in input order (the
\* empty array for no input); otherwise it returns a failure whose payload is
\* a string that names the number of inputs that did not succeed.
C14_FromAll ==
    last.op = "resultFromAll" =>
        LET results == last.arg
        IN  /\ last.out.kind = "new"
            /\ Outcome.succeeded <=> NotSucceeded(results) = {}
            /\ NotSucceeded(results) = {} =>
                   /\ Outcome.value.kind = "array"
                   /\ Len(Outcome.value.elems) = Len(results)
                   /\ Lists(Outcome.value.elems, DOMAIN results, ValuesOf(results))
            /\ NotSucceeded(results) # {} =>
                   /\ Outcome.failed
                   /\ Outcome.error.kind = "string"
                   /\ Outcome.error.text[Len(Outcome.error.text)]
                          = ToString(Cardinality(NotSucceeded(results)))

\* C14 witness: of three inputs two failed, and the failure names 2
C14_Witness ==
    /\ last.op = "resultFromAll"
    /\ Len(last.arg) = 3
    /\ last.arg[1].failed /\ last.arg[2].succeeded /\ last.arg[3].failed
    /\ Outcome.failed
    /\ Outcome.error.text[2] = "2"

\* C15: resultFromAny always returns a success; its value is the array of the
\* values of exactly the inputs that succeeded, in input order, which is the
\* empty array when no input succeeded or there is no input.
C15_FromAny ==
    last.op = "resultFromAny" =>
        LET results == last.arg
        IN  /\ last.out.kind = "new"
            /\ Outcome.succeeded
            /\ Outcome.value.kind = "array"
            /\ Lists(Outcome.value.elems, DOMAIN results \ NotSucceeded(results), ValuesOf(results))

\* C15 witness: a failure between two successes was dropped, and the two
\* values were kept in order
C15_Witness ==
    /\ last.op = "resultFromAny"
    /\ Len(last.arg) = 3
    /\ last.arg[1].succeeded /\ last.arg[2].failed /\ last.arg[3].succeeded
    /\ last.arg[1].value # last.arg[3].value
    /\ Outcome.succeeded
    /\ Outcome.value.elems = <<last.arg[1].value, last.arg[3].value>>

\* C16: forEachResult applies the handler once to every input Result, in
\* input order; it returns a success exactly when every Result the handler
\* returned succeeded, holding all returned values in order; otherwise it
\* returns a failure holding the payloads of the returned Results that did
\* not succeed, in order, one entry for each of them.
C16_ForEachResult ==
    (last.op = "forEachResult" /\ ~HandlerThrew) =>
        /\ Len(Calls) = Len(last.arg)
        /\ \A i \in DOMAIN Calls :
               Calls[i].fn = "handler" /\ Calls[i].arg = ResultObject(last.arg[i])
        /\ Outcome.succeeded <=> NotSucceeded(ReturnedResults) = {}
        /\ NotSucceeded(ReturnedResults) = {} =>
               Lists(Outcome.value.elems, DOMAIN Calls, ValuesOf(ReturnedResults))
        /\ NotSucceeded(ReturnedResults) # {} =>
               /\ Outcome.failed
               /\ Lists(Outcome.error.elems, NotSucceeded(ReturnedResults), ErrorsOf(ReturnedResults))

FailedSteps == {i \in DOMAIN Calls : Calls[i].res.failed}

\* C18: when every step of the reducer returns a success, reduceToResult
\* returns a success holding the reduced value, which is the value of the
\* last step (the initial value when there is no step); when any step returns
\* a failure it returns a failure holding all the failures the reducer
\* returned, in input order, one entry for each failing step.
C18_Reduce ==
    (last.op = "reduceToResult" /\ ~HandlerThrew) =>
        /\ NotSucceeded(ReturnedResults) = {} =>
               /\ Outcome.succeeded
               /\ Outcome.value = IF Calls = <<>> THEN last.arg.initialValue
                                  ELSE Calls[Len(Calls)].res.value
        /\ FailedSteps # {} =>
               /\ Outcome.failed
               /\ Lists(Outcome.error.elems, FailedSteps, ErrorsOf(ReturnedResults))

\* C19 as stated: reduceToResult returns a failure, holding all the failures,
\* when the final accumulator is still the initial value and some step failed,
\* and otherwise a success holding the final accumulator.
C19_ReduceDecisionAsStated ==
    (last.op = "reduceToResult" /\ ~HandlerThrew) =>
        IF last.out.val = last.arg.initialValue /\ FailedSteps # {}
        THEN /\ Outcome.failed
             /\ Lists(Outcome.error.elems, FailedSteps, ErrorsOf(ReturnedResults))
        ELSE /\ Outcome.succeeded
             /\ Outcome.value = last.out.val

\* C19: reduceToResult returns a failure, holding all the failures in order,
\* whenever some step failed, whether or not the accumulator changed, and
\* also when the final accumulator is undefined; otherwise it returns a
\* success holding the final accumulator.
C19_ReduceDecision ==
    (last.op = "reduceToResult" /\ ~HandlerThrew) =>
        IF FailedSteps # {} \/ last.out.val = Undefined
        THEN /\ Outcome.failed
             /\ Lists(Outcome.error.elems, FailedSteps, ErrorsOf(ReturnedResults))
        ELSE /\ Outcome.succeeded
             /\ Outcome.value = last.out.val

\* C19 witness: one step succeeded and changed the accumulator, another
\* failed, and the outcome is a failure holding that one failure
C19_Witness ==
    /\ last.op = "reduceToResult"
    /\ Len(Calls) = 2
    /\ Calls[1].res.succeeded /\ Calls[2].res.failed
    /\ last.out.val = Calls[1].res.value
    /\ last.out.val # last.arg.initialValue
    /\ Outcome.failed
    /\ Outcome.error.elems = <<Calls[2].res.error>>

\* C20: forEachPromise invokes the handler once on every element, in input
\* order, before it waits for any of the Promises the handler returned, and
\* it returns nothing until every one of them has settled: a rejection never
\* makes it return while another Promise is pending.
C20_AllSettledFirst ==
    /\ each.phase \in {"awaiting", "done"} =>
           /\ Len(each.calls) = Len(each.elems)
           /\ \A i \in DOMAIN each.calls :
                  each.calls[i].fn = "handler" /\ each.calls[i].arg = each.elems[i]
    /\ each.phase = "mapping" =>
           /\ Len(each.calls) <= Len(each.elems)
           /\ \A i \in DOMAIN each.calls : each.calls[i].arg = each.elems[i]
    /\ each.phase = "done" =>
           /\ Len(each.results) = Len(each.elems)
           /\ \A i \in DOMAIN each.results : each.results[i].state # "pending"
    /\ (last.op = "forEachPromise" /\ last.out.kind = "new") => each.phase = "done"

\* C20 witness: the first Promise was rejected while the second was pending,
\* the second was fulfilled later, and only then the call returned
C20_Witness ==
    /\ each.phase = "done"
    /\ each.order = <<1, 2>>
    /\ each.results[1].state = "rejected"
    /\ each.results[2].state = "fulfilled"
    /\ last.op = "forEachPromise"
    /\ last.out.res.failed

\* the Promises of the handler that were rejected, and that were fulfilled
Rejected == {i \in DOMAIN each.results : each.results[i].state = "rejected"}
Fulfilled == {i \in DOMAIN each.results : each.results[i].state = "fulfilled"}

\* every Promise of the handler that was fulfilled, was fulfilled with a Result
AllResolvedResults == \A i \in Fulfilled : each.results[i].settled.kind = "Result"

\* the Results the Promises of the handler were fulfilled with, by position
Resolved == [i \in DOMAIN each.results |-> ReadAsResult(each.results[i].settled)]

\* the array elems holds values[i] for exactly the indexes i of the set, in
\* some order
Permutes(elems, set, values) ==
    /\ Len(elems) = Cardinality(set)
    /\ \E f \in [1 .. Len(elems) -> set] :
           /\ \A a, b \in 1 .. Len(elems) : f[a] = f[b] => a = b
           /\ \A k \in 1 .. Len(elems) : elems[k] = values[f[k]]

\* values[i] for the indexes i of the set, in the order the Promises settled
BySettlement(set, values) ==
    LET settled == SelectSeq(each.order, LAMBDA i : i \in set)
    IN  [k \in DOMAIN settled |-> values[settled[k]]]

\* C21: once every Promise has settled, forEachPromise returns, if some
\* Promise was rejected, a failure holding all the rejection reasons, one for
\* each rejected Promise; if none was rejected it returns what forEachResult
\* with the identity handler returns for the Results the Promises were
\* fulfilled with: a success holding all their values exactly when every one
\* succeeded, and otherwise a failure holding the payloads of the failures.
C21_ForEachPromiseOutcome ==
    each.phase = "done" =>
        /\ Rejected # {} =>
               /\ Outcome.failed
               /\ Permutes(Outcome.error.elems, Rejected, SettledOf(each.results))
        /\ (Rejected = {} /\ AllResolvedResults) =>
               LET identity == [i \in DOMAIN Resolved |-> NextFn(Resolved[i], 0)]
                   failures == {i \in DOMAIN Resolved : Resolved[i].failed}
               IN  /\ Outcome = forEachResult(Resolved, identity).res
                   /\ Outcome.succeeded <=> NotSucceeded(Resolved) = {}
                   /\ Outcome.succeeded =>
                          Permutes(Outcome.value.elems, DOMAIN Resolved, ValuesOf(Resolved))
                   /\ ~Outcome.succeeded =>
                          /\ Outcome.failed
                          /\ Permutes(Outcome.error.elems, failures, ErrorsOf(Resolved))

\* C21 witness: no Promise was rejected, one was fulfilled with a success and
\* one with a failure, and the outcome is a failure holding that payload
C21_Witness ==
    /\ each.phase = "done"
    /\ Len(each.results) = 2
    /\ Rejected = {}
    /\ AllResolvedResults
    /\ Resolved[1].succeeded
    /\ Resolved[2].failed
    /\ Outcome.failed
    /\ Outcome.error.elems = <<Resolved[2].error>>

\* C22 as stated: the reasons of the failure list and the values of the
\* success list of forEachPromise are in the order in which the Promises
\* settled.
C22_SettlementOrder ==
    each.phase = "done" =>
        /\ Rejected # {} =>
               Outcome.error.elems = BySettlement(Rejected, SettledOf(each.results))
        /\ (Rejected = {} /\ AllResolvedResults /\ NotSucceeded(Resolved) = {}) =>
               Outcome.value.elems = BySettlement(Fulfilled, ValuesOf(Resolved))

\* C22: the reasons of the failure list and the values of the success list
\* of forEachPromise are in the order of the elements of the input array,
\* whatever the order in which the Promises settled.
C22_InputOrder ==
    each.phase = "done" =>
        /\ Rejected # {} =>
               Lists(Outcome.error.elems, Rejected, SettledOf(each.results))
        /\ (Rejected = {} /\ AllResolvedResults /\ NotSucceeded(Resolved) = {}) =>
               Lists(Outcome.value.elems, Fulfilled, ValuesOf(Resolved))

\* C22 witness: the second Promise was rejected before the first, with a
\* different reason, and the failure list holds the first one's reason first
C22_Witness ==
    /\ each.phase = "done"
    /\ each.order = <<2, 1>>
    /\ Rejected = {1, 2}
    /\ each.results[1].settled # each.results[2].settled
    /\ Outcome.error.elems = <<each.results[1].settled, each.results[2].settled>>

\* the Promise the receiver of liftPromise holds
Lifted == promises[Receiver.value.id]

\* C23: liftPromise() on a failure holding e resolves to a failure holding e;
\* on a success whose payload is no Promise it resolves, without waiting, to
\* a success holding that payload; on a success holding a Promise it
\* resolves, once the Promise has settled, to the settled value itself when
\* that is a Result, to a success wrapping the settled value when that is any
\* other value, primitive or object, and to a failure holding the reason when
\* the Promise was rejected. Its own Promise is never rejected.
C23_LiftPromise ==
    /\ last.op \in {"liftPromise", "liftPromise.settled"} => last.out.kind # "raise"
    /\ (last.op = "liftPromise" /\ Receiver.failed) =>
           /\ ReturnedResult
           /\ Result.failed
           /\ Result.error = Receiver.error
    /\ (last.op = "liftPromise" /\ Receiver.succeeded) =>
           IF Receiver.value.kind = "promise"
           THEN last.out.kind = "await"
           ELSE /\ ReturnedResult
                /\ Result.succeeded
                /\ Result.value = Receiver.value
    /\ last.op = "liftPromise.settled" =>
           /\ ReturnedResult
           /\ (Lifted.state = "fulfilled" /\ Lifted.settled.kind = "Result") =>
                  last.ret = Lifted.settled.id
           /\ (Lifted.state = "fulfilled" /\ Lifted.settled.kind # "Result") =>
                  /\ Result.succeeded
                  /\ Result.value = Lifted.settled
           /\ Lifted.state = "rejected" =>
                  /\ Result.failed
                  /\ Result.error = Lifted.settled

\* the absent markers of Optional
Absent == {Null, Undefined}

\* C24: on every Optional built by of, ofNullable or empty and reached by any
\* sequence of map and filter, isEmpty() and isNotEmpty() are complements and
\* the Optional is empty exactly when the value it holds is null or
\* undefined; of(v) is not empty, ofNullable(v) is empty exactly for null and
\* undefined, and empty() is empty.
C24_Emptiness ==
    InChain =>
        /\ isEmpty(Current) <=> ~isNotEmpty(Current)
        /\ isEmpty(Current) <=> Current.value \in Absent
        /\ last.op = "isEmpty" => last.out.val = Bool(Receiver.value \in Absent)
        /\ last.op = "isNotEmpty" => last.out.val = Bool(Receiver.value \notin Absent)
        /\ last.op = "of" => isNotEmpty(Current) /\ Current.value = last.arg
        /\ last.op = "ofNullable" =>
               /\ Current.value = last.arg
               /\ isEmpty(Current) <=> last.arg \in Absent
        /\ last.op = "empty" => isEmpty(Current)

\* C24 witness: isEmpty() answered false on an Optional in a chain that
\* holds 0
C24_Witness ==
    /\ last.op = "isEmpty"
    /\ Receiver.value = Zero
    /\ last.out.val = False

\* C25: on an empty Optional map and filter return an empty Optional and do
\* not invoke the function passed; on an Optional holding v, map returns an
\* Optional that holds mapper(v), empty exactly when mapper(v) is null or
\* undefined, and filter returns an Optional holding v when predicate(v)
\* holds and an empty Optional otherwise.
C25_MapFilter ==
    (last.op \in {"Optional.map", "Optional.filter"} /\ ~HandlerThrew) =>
        /\ last.out.kind = "new"
        /\ isEmpty(Receiver) => (Calls = <<>> /\ isEmpty(Current))
        /\ (isNotEmpty(Receiver) /\ last.op = "Optional.map") =>
               /\ InvokedOnce("mapper", Receiver.value)
               /\ Current.value = Calls[1].ret
               /\ isEmpty(Current) <=> Calls[1].ret \in Absent
        /\ (isNotEmpty(Receiver) /\ last.op = "Optional.filter") =>
               /\ InvokedOnce("predicate", Receiver.value)
               /\ Calls[1].ret = True => Current.value = Receiver.value
               /\ Calls[1].ret = False => isEmpty(Current)

\* C25 witness: the mapper returned null on an Optional holding a value, and
\* the Optional returned is empty
C25_Witness ==
    /\ last.op = "Optional.map"
    /\ isNotEmpty(Receiver)
    /\ Len(Calls) = 1
    /\ Calls[1].ret = Null
    /\ isEmpty(Current)

\* C26: on an Optional holding v, falsy values included, getOrElse(d) and
\* getOrThrow(supplier) return v and the supplier is not invoked; on an empty
\* Optional getOrElse(d) returns d and getOrThrow(supplier) raises the error
\* that supplier() returned.
C26_OptionalUnwrap ==
    /\ (last.op \in {"getOrElse", "Optional.getOrThrow"} /\ isNotEmpty(Receiver)) =>
           /\ last.out.kind = "value"
           /\ last.out.val = Receiver.value
           /\ Calls = <<>>
    /\ (last.op = "getOrElse" /\ isEmpty(Receiver)) =>
           /\ last.out.kind = "value"
           /\ last.out.val = last.arg
    /\ (last.op = "Optional.getOrThrow" /\ isEmpty(Receiver)) =>
           /\ last.out.kind = "raise"
           /\ InvokedOnce("supplier", Undefined)
           /\ ~HandlerThrew => last.out.thrown = Calls[1].ret.text

\* C26 witness: getOrThrow returned the empty string an Optional holds
C26_Witness ==
    /\ last.op = "Optional.getOrThrow"
    /\ Receiver.value = EmptyString
    /\ last.out.kind = "value"
    /\ last.out.val = EmptyString

\* the operations a failure passes through
Absorbed ==
    {"map", "flatMap", "andThen", "conditionalMap", "conditionalFlatMap", "filter",
     "onSuccess"}

\* C27: map, flatMap, andThen, conditionalMap, conditionalFlatMap, filter and
\* onSuccess on a failure with payload e return a failure with the payload e,
\* invoke none of the functions passed and do not raise, so the same holds
\* after any sequence of them; onFailure on a failure with payload e invokes
\* its handler with e.
C27_FailureAbsorbing ==
    /\ (last.op \in Absorbed /\ Receiver.failed) =>
           /\ last.out.kind # "raise"
           /\ ReturnedResult
           /\ Result.failed
           /\ ~Result.succeeded
           /\ Result.error = Receiver.error
           /\ Calls = <<>>
    /\ (last.op = "onFailure" /\ Receiver.failed) =>
           InvokedOnce("handler", Receiver.error)

\* C27 witness: filter on a failure returned a second instance, a failure
\* with the payload of the first, and invoked nothing
C27_Witness ==
    /\ last.op = "filter"
    /\ Receiver.failed
    /\ ReturnedResult
    /\ last.ret # last.recv
    /\ Result.failed
    /\ Result.error = Receiver.error
    /\ Calls = <<>>

\* C28: reduceToResult invokes the reducer once for each element, in order;
\* the accumulator passed to the first step is initialValue, and the
\* accumulator passed to the step after step i is the value of the success
\* step i returned, falsy values included, or the accumulator step i was
\* passed when step i returned a failure.
C28_LeftFold ==
    (last.op = "reduceToResult" /\ ~HandlerThrew) =>
        /\ Len(Calls) = Len(last.arg.values)
        /\ \A i \in DOMAIN Calls :
               /\ Calls[i].fn = "reducer"
               /\ Calls[i].arg[2] = last.arg.values[i]
        /\ Calls # <<>> => Calls[1].arg[1] = last.arg.initialValue
        /\ \A i \in DOMAIN Calls \ {Len(Calls)} :
               /\ Calls[i].res.succeeded => Calls[i + 1].arg[1] = Calls[i].res.value
               /\ Calls[i].res.failed => Calls[i + 1].arg[1] = Calls[i].arg[1]

\* C29: when some Promise of the handler was rejected and another was
\* fulfilled with a failure, the failure forEachPromise returns holds exactly
\* the rejection reasons: one entry for each rejected Promise, its reason,
\* and no entry for a Promise that was fulfilled.
C29_RejectionsOnly ==
    (/\ each.phase = "done"
     /\ Rejected # {}
     /\ \E i \in Fulfilled : Resolved[i].failed) =>
        /\ Outcome.failed
        /\ ~Outcome.succeeded
        /\ Len(Outcome.error.elems) = Cardinality(Rejected)
        /\ Lists(Outcome.error.elems, Rejected, SettledOf(each.results))

\* C29 witness: the first Promise was rejected with 0, the second fulfilled
\* with a failure holding 'a', and the outcome is a failure holding [0]
C29_Witness ==
    /\ each.phase = "done"
    /\ Len(each.results) = 2
    /\ each.results[1] = [state |-> "rejected", settled |-> Zero]
    /\ each.results[2].state = "fulfilled"
    /\ Resolved[2].failed
    /\ Resolved[2].error = StrA
    /\ Outcome.failed
    /\ Outcome.error.elems = <<Zero>>

\* the call of forEachPromise is running
Running == each.phase \in {"mapping", "awaiting"}

\* some Promise of the handler was fulfilled with undefined
FulfilledUndefined == \E i \in Fulfilled : each.results[i].settled = Undefined

\* C30: with a handler that returns a Promise for each element, whatever the
\* Promises settle with, the Promise of forEachPromise is not rejected (it is
\* rejected only when the handler itself threw); once it is fulfilled it
\* holds a Result that is either a success or a failure; an error raised
\* while the settled values are processed is returned as a failure holding
\* that one error; and a running call is fulfilled in the end when every
\* Promise of the handler settles.
C30_AlwaysCompletes ==
    /\ [](each.phase = "rejected" => (last.out.kind = "raise" /\ HandlerThrew))
    /\ [](each.phase = "done" =>
             /\ last.out.kind = "new"
             /\ Outcome.succeeded # Outcome.failed)
    /\ []((each.phase = "done" /\ Rejected = {} /\ FulfilledUndefined) =>
             /\ Outcome.failed
             /\ Outcome.error.elems = <<TypeError("succeeded")>>)
    /\ (Running ~> (each.phase \in {"done", "rejected"}))

\* C30 witness: a Promise was fulfilled with undefined, none was rejected, and
\* the call returned a failure holding the one TypeError
C30_Witness ==
    /\ each.phase = "done"
    /\ Rejected = {}
    /\ FulfilledUndefined
    /\ Outcome.failed
    /\ Len(Outcome.error.elems) = 1

====
